---- MODULE Spec2Model ----
(***************************************************************************)
(* Taurus (Discord bot relaying messages to Gemini): model of utils.js.    *)
(*                                                                         *)
(*   handleGeminiError / handleResponse / createInfoEmbed  (SpecFormatter) *)
(*   fetchThreadMessages / isInvalidOriginalMessage        (SpecFetch)     *)
(*   getThreadMessages                                     (SpecWalk)      *)
(*                                                                         *)
(* A JavaScript string is a sequence of one-character strings, so that     *)
(* substring, startsWith, split and the regular expressions are computed   *)
(* character by character.                                                 *)
(***************************************************************************)
EXTENDS Integers, Sequences, FiniteSets, TLC

VARIABLES
    pc,              \* position of the running function
    args,            \* arguments of handleResponse / handleGeminiError
    responseText,    \* handleResponse: let responseText
    lastIndex,       \* handleResponse: regex.lastIndex of the /g regex
    i,               \* handleGeminiError: loop counter
    embed,           \* handleGeminiError: the EmbedBuilder being edited in
    log,             \* what was done to loadingMsg: edits and timer waits, in order
    ret,             \* value returned by the formatter function
    apiKey,          \* fetchThreadMessages: Gemini_API_KEY
    chain,           \* chain[1] is the inbound message, chain[k+1] the message chain[k] replies to
    terminal,        \* what lies behind the last message of chain
    currentMessage,  \* getThreadMessages: index in chain of the cursor
    threadMessages,  \* the accumulated turns
    result           \* outcome of fetchThreadMessages / getThreadMessages

vars == << pc, args, responseText, lastIndex, i, embed, log, ret,
           apiKey, chain, terminal, currentMessage, threadMessages, result >>

formatterVars == << args, responseText, lastIndex, i, embed, log, ret >>
threadVars == << apiKey, chain, terminal, currentMessage, threadMessages, result >>

(***************************************************************************)
(* Bounds of the model.                                                    *)
(***************************************************************************)
\* response texts are tried with their first token starting at CutLength - Window .. CutLength
Window == 4
\* number of messages behind the inbound message in a reply chain
MaxDepth == 3

(***************************************************************************)
(* Strings.                                                                *)
(***************************************************************************)
LowerCase == {"a", "b", "c", "d", "e", "f", "g", "h", "i", "j", "k", "l", "m",
              "n", "o", "p", "q", "r", "s", "t", "u", "v", "w", "x", "y", "z"}
UpperCase == {"A", "B", "C", "D", "E", "F", "G", "H", "I", "J", "K", "L", "M",
              "N", "O", "P", "Q", "R", "S", "T", "U", "V", "W", "X", "Y", "Z"}
Digit == {"0", "1", "2", "3", "4", "5", "6", "7", "8", "9"}
\* \s, for the characters the model's strings hold
WhiteSpace == {" ", "\n", "\t"}
\* \w
WordChar == LowerCase \cup UpperCase \cup Digit \cup {"_"}

Min(S) == CHOOSE x \in S : \A y \in S : x <= y

\* a string of n copies of character c
Rep(c, n) == [k \in 1..n |-> c]

\* s.substring(0, n) and s.slice(0, n), for 0 <= n
Substring(s, n) == SubSeq(s, 1, IF n < Len(s) THEN n ELSE Len(s))

\* s.startsWith(p)
StartsWith(s, p) == Len(p) <= Len(s) /\ SubSeq(s, 1, Len(p)) = p

\* the value JavaScript calls undefined, where a string is expected
Undefined == << "undefined" >>

\* s.split("\n")[2]
SplitLine2(s) ==
    LET NL == {k \in 1..Len(s) : s[k] = "\n"}
    IN  IF Cardinality(NL) < 2 THEN Undefined
        ELSE LET a == CHOOSE k \in NL : Cardinality({j \in NL : j < k}) = 1
                 after == {k \in NL : k > a}
                 b == IF after = {} THEN Len(s) + 1 ELSE Min(after)
             IN  SubSeq(s, a + 1, b - 1)

\* number of consecutive characters of class C in s from position p on
Run(s, p, C) ==
    IF p > Len(s) THEN 0
    ELSE CHOOSE n \in 0..(Len(s) - p + 1) :
            /\ \A k \in p..(p + n - 1) : s[k] \in C
            /\ (p + n > Len(s) \/ s[p + n] \notin C)

\* length of the match of <@&?\d+> (role = TRUE) or <@\d+> (role = FALSE) that
\* starts at position p of s, 0 when there is none
MentionMatch(s, p, role) ==
    LET q == IF role /\ p + 2 <= Len(s) /\ s[p + 2] = "&" THEN p + 3 ELSE p + 2
        d == Run(s, q, Digit)
    IN  IF /\ p + 1 <= Len(s)
           /\ s[p] = "<"
           /\ s[p + 1] = "@"
           /\ d > 0
           /\ q + d <= Len(s)
           /\ s[q + d] = ">"
        THEN q + d - p + 1
        ELSE 0

\* `<@${id}>`
Mention(id) == << "<", "@" >> \o id \o << ">" >>

(***************************************************************************)
(* Embeds and the footers createInfoEmbed writes.                          *)
(***************************************************************************)
NoFooter == [present |-> FALSE, text |-> << >>]
Footer(t) == [present |-> TRUE, text |-> t]
\* new EmbedBuilder().setTitle(..).setDescription(..).setColor(..)
Embed(title, description, color) ==
    [title |-> title, description |-> description, color |-> color, footer |-> NoFooter]
\* embed.setFooter({ text })
SetFooter(e, t) == [e EXCEPT !.footer = Footer(t)]

\* "Response to message by", 22 characters
ResponseToPrefix == <<
    "R", "e", "s", "p", "o", "n", "s", "e", " ", "t", "o", " ", "m", "e", "s", "s", "a", "g",
    "e", " ", "b", "y" >>
\* "A message has been deleted", 26 characters
DeletedPrefix == <<
    "A", " ", "m", "e", "s", "s", "a", "g", "e", " ", "h", "a", "s", " ", "b", "e", "e", "n",
    " ", "d", "e", "l", "e", "t", "e", "d" >>
\* "Reply thread history", 20 characters
HistoryPrefix == <<
    "R", "e", "p", "l", "y", " ", "t", "h", "r", "e", "a", "d", " ", "h", "i", "s", "t", "o",
    "r", "y" >>
\* footer of the threadDeleted notice, 117 characters
ThreadDeletedFooter == <<
    "A", " ", "m", "e", "s", "s", "a", "g", "e", " ", "h", "a", "s", " ", "b", "e", "e", "n",
    " ", "d", "e", "l", "e", "t", "e", "d", "/", "i", "s", " ", "n", "o", "t", " ", "a", "c",
    "c", "e", "s", "s", "i", "b", "l", "e", " ", "i", "n", " ", "t", "h", "e", " ", "r", "e",
    "p", "l", "y", " ", "t", "h", "r", "e", "a", "d", ",", " ", "T", "a", "u", "r", "u", "s",
    " ", "d", "o", "e", "s", " ", "n", "o", "t", " ", "k", "n", "o", "w", " ", "t", "h", "e",
    " ", "p", "a", "s", "t", " ", "r", "e", "p", "l", "y", " ", "t", "h", "r", "e", "a", "d",
    " ", "h", "i", "s", "t", "o", "r", "y", "." >>
\* footer of the slashCommand notice, 86 characters
SlashCommandFooter == <<
    "R", "e", "p", "l", "y", " ", "t", "h", "r", "e", "a", "d", " ", "h", "i", "s", "t", "o",
    "r", "y", " ", "n", "o", "t", " ", "a", "c", "c", "e", "s", "s", "i", "b", "l", "e", ",",
    " ", "u", "t", "i", "l", "i", "z", "e", " ", "h", "i", "s", "t", "o", "r", "y", " ", "b",
    "y", " ", "m", "e", "n", "t", "i", "o", "n", "i", "n", "g", " ", "m", "e", " ", "t", "o",
    " ", "c", "h", "a", "t", " ", "i", "n", "s", "t", "e", "a", "d", "." >>

FooterLimit == 2030
FooterKeep == 2027

\* `Response to message by ${message.author.tag}\n\n${message.content}`
FooterText(message) ==
    ResponseToPrefix \o << " " >> \o message.tag \o << "\n", "\n" >> \o message.content

\* footerText.length > 2030 ? `${footerText.slice(0, 2027)}...` : footerText
TruncatedFooterText(footerText) ==
    IF Len(footerText) > FooterLimit
    THEN Substring(footerText, FooterKeep) \o << ".", ".", "." >>
    ELSE footerText

CreateInfoEmbed(isContextMenuCommand, message, messageDeleted) ==
    LET info == IF isContextMenuCommand
                THEN << SetFooter(Embed("", "", "Blue"), TruncatedFooterText(FooterText(message))) >>
                ELSE << >>
    IN  CASE messageDeleted = "threadDeleted" ->
                info \o << SetFooter(Embed("", "", "Orange"), ThreadDeletedFooter) >>
          [] messageDeleted = "slashCommand" ->
                info \o << SetFooter(Embed("", "", "Orange"), SlashCommandFooter) >>
          [] OTHER -> info

(***************************************************************************)
(* What is done to loadingMsg, and when the function sleeps.               *)
(***************************************************************************)
\* loadingMsg.edit({ content, embeds })
EditContent(text, embeds) ==
    [op |-> "edit", hasContent |-> TRUE, content |-> text, embeds |-> embeds, ms |-> 0]
\* loadingMsg.edit({ embeds })
EditEmbeds(embeds) ==
    [op |-> "edit", hasContent |-> FALSE, content |-> << >>, embeds |-> embeds, ms |-> 0]
\* await new Promise((resolve) => setTimeout(resolve, ms))
Wait(ms) ==
    [op |-> "wait", hasContent |-> FALSE, content |-> << >>, embeds |-> << >>, ms |-> ms]

NoMessage == [present |-> FALSE, authorId |-> << >>, tag |-> << >>, content |-> << >>]
NoArgs == [fn |-> "", response |-> << >>, message |-> NoMessage, interactionUserId |-> << >>,
           messageDeleted |-> "undefined", isContextMenuCommand |-> FALSE, errMessage |-> ""]

(***************************************************************************)
(* handleGeminiError                                                       *)
(***************************************************************************)
SafetySignature == "[GoogleGenerativeAI Error]: Candidate was blocked due to SAFETY"
LocationSignature == "[GoogleGenerativeAI Error]: Error fetching from https://generativelanguage.googleapis.com/v1beta/models/gemini-1.5-pro-latest:generateContent: [400 Bad Request] User location is not supported for the API use."
QuotaSignature == "[GoogleGenerativeAI Error]: Error fetching from https://generativelanguage.googleapis.com/v1beta/models/gemini-1.5-pro-latest:generateContent: [429 Too Many Requests] Resource has been exhausted (e.g. check quota)."
EmptySignature == "Cannot send an empty message"
InternalSignature == "[GoogleGenerativeAI Error]: Error fetching from https://generativelanguage.googleapis.com/v1beta/models/gemini-1.5-pro-latest:generateContent: [500 Internal Server Error] An internal error has occurred. Please retry or report in https://developers.generativeai.google/guide/troubleshooting"

\* the table; descriptions are named by their first words
ErrorResponses ==
    (SafetySignature :> [title |-> "An Error Occurred", description |-> "blocked due to SAFETY",
                         color |-> "Red", quotaError |-> FALSE])
 @@ (LocationSignature :> [title |-> "An Error Occurred", description |-> "user location is not supported",
                           color |-> "Red", quotaError |-> FALSE])
 @@ (QuotaSignature :> [title |-> "An Error Occurred", description |-> "a lot of requests at the moment",
                        color |-> "Red", quotaError |-> TRUE])
 @@ (EmptySignature :> [title |-> "An Error Occurred", description |-> "response may be too long",
                        color |-> "Red", quotaError |-> FALSE])
 @@ (InternalSignature :> [title |-> "An Error Occurred", description |-> "originated from Google's side",
                           color |-> "Red", quotaError |-> FALSE])
 @@ ("default" :> [title |-> "An Error Occurred", description |-> "unknown error",
                   color |-> "Red", quotaError |-> FALSE])

\* errorResponses[err.message] || errorResponses.default
ErrorResponse(message) ==
    IF message \in DOMAIN ErrorResponses THEN ErrorResponses[message] ELSE ErrorResponses["default"]

\* the error messages tried: every signature of the table, and messages that are not in it
ErrorMessages ==
    { SafetySignature, LocationSignature, QuotaSignature, EmptySignature, InternalSignature,
      "default", "fetch failed",
      "[429 Too Many Requests] Resource has been exhausted (e.g. check quota).",
      "[GoogleGenerativeAI Error]: Error fetching from https://generativelanguage.googleapis.com/v1beta/models/gemini-pro:generateContent: [429 Too Many Requests] Resource has been exhausted (e.g. check quota)." }

CountdownStart == 10
WaitMs == 1000

DigitChars == << "0", "1", "2", "3", "4", "5", "6", "7", "8", "9" >>
\* `${n}` for a number n >= 0
RECURSIVE NumberToString(_)
NumberToString(n) ==
    IF n < 10 THEN << DigitChars[n + 1] >>
    ELSE NumberToString(n \div 10) \o << DigitChars[(n % 10) + 1] >>

\* `⏱️ Retrying request in (${n})`; the stopwatch emoji is the element "stopwatch"
RetryFooter(n) ==
    << "stopwatch", " ", "R", "e", "t", "r", "y", "i", "n", "g", " ", "r", "e", "q", "u", "e",
       "s", "t", " ", "i", "n", " ", "(" >> \o NumberToString(n) \o << ")" >>

\* the loop condition written i >= 0
CountdownContinuesAtZero(n) == n >= 0

\* the loop condition i > 0
CountdownContinues(n) == n > 0

InitError ==
    /\ pc = "handleGeminiError"
    /\ \E m \in ErrorMessages : args = [NoArgs EXCEPT !.fn = "handleGeminiError", !.errMessage = m]
    /\ responseText = << >>
    /\ lastIndex = 0
    /\ i = 0
    /\ embed = Embed("", "", "")
    /\ log = << >>
    /\ ret = "pending"

\* lines 62-68, the quota branch: build the embed, enter the loop
QuotaNotice ==
    /\ pc = "handleGeminiError"
    /\ ErrorResponse(args.errMessage).quotaError
    /\ embed' = Embed(ErrorResponse(args.errMessage).title,
                      ErrorResponse(args.errMessage).description,
                      ErrorResponse(args.errMessage).color)
    /\ i' = CountdownStart
    /\ pc' = "countdown"
    /\ UNCHANGED << args, responseText, lastIndex, log, ret >>

\* lines 69-71: set the footer and edit
CountdownEdit ==
    /\ pc = "countdown"
    /\ CountdownContinues(i)
    /\ embed' = SetFooter(embed, RetryFooter(i))
    /\ log' = Append(log, EditEmbeds(<< embed' >>))
    /\ pc' = "sleep"
    /\ UNCHANGED << args, responseText, lastIndex, i, ret >>

\* line 72 and the loop's i--
CountdownWait ==
    /\ pc = "sleep"
    /\ log' = Append(log, Wait(WaitMs))
    /\ i' = i - 1
    /\ pc' = "countdown"
    /\ UNCHANGED << args, responseText, lastIndex, embed, ret >>

\* line 74
CountdownReturn ==
    /\ pc = "countdown"
    /\ ~CountdownContinues(i)
    /\ ret' = "quota_error"
    /\ pc' = "done"
    /\ UNCHANGED << args, responseText, lastIndex, i, embed, log >>

\* lines 62-66 and 76: every other error is one edit
ErrorNotice ==
    /\ pc = "handleGeminiError"
    /\ ~ErrorResponse(args.errMessage).quotaError
    /\ embed' = Embed(ErrorResponse(args.errMessage).title,
                      ErrorResponse(args.errMessage).description,
                      ErrorResponse(args.errMessage).color)
    /\ log' = Append(log, EditEmbeds(<< embed' >>))
    /\ ret' = "undefined"
    /\ pc' = "done"
    /\ UNCHANGED << args, responseText, lastIndex, i >>

(***************************************************************************)
(* handleResponse                                                          *)
(***************************************************************************)
MaxResponseLength == 2000
CutLength == 1936
\* the limit Discord puts on a message's content, which line 97's notice names
DiscordCharLimit == 2000

\* "... \n\n*Response was cut short due to Discord's character limit of 2000*"
TruncationSuffix == <<
    ".", ".", ".", " ", "\n", "\n", "*", "R", "e", "s", "p", "o", "n", "s", "e", " ", "w", "a",
    "s", " ", "c", "u", "t", " ", "s", "h", "o", "r", "t", " ", "d", "u", "e", " ", "t", "o",
    " ", "D", "i", "s", "c", "o", "r", "d", "'", "s", " ", "c", "h", "a", "r", "a", "c", "t",
    "e", "r", " ", "l", "i", "m", "i", "t", " ", "o", "f", " ", "2", "0", "0", "0", "*" >>

\* responseText.length >= 2000
TooLongInclusive(text) == Len(text) >= MaxResponseLength

\* responseText.length > 2000
TooLong(text) == Len(text) > MaxResponseLength

\* lines 96-98
Truncate(text) ==
    IF TooLong(text) THEN Substring(text, CutLength) \o TruncationSuffix ELSE text

\* regex.exec(responseText) of /<@&?\d+>/g: the position of the leftmost match that
\* starts after the first `from` characters, 0 for null
Exec(text, from) ==
    LET starts == {p \in (from + 1)..Len(text) : text[p] = "<" /\ MentionMatch(text, p, TRUE) > 0}
    IN  IF starts = {} THEN 0 ELSE Min(starts)

\* match[0]
Matched(text, p) == SubSeq(text, p, p + MentionMatch(text, p, TRUE) - 1)

\* message?.author?.id || interaction.user.id
RequesterId(a) == IF a.message.present THEN a.message.authorId ELSE a.interactionUserId

\* comparing the digits of the token only, not the token
MismatchOfDigits(token, id) == SubSeq(token, Len(token) - Len(id), Len(token) - 1) # id

\* match[0] !== `<@${id}>`
Mismatch(token, id) == token # Mention(id)

PingError ==
    Embed("Response Cannot Be Sent",
          "mention of a Role or different User to the one that sent the original message/command",
          "Red")

\* the mention-like tokens the response texts are built from
Tokens ==
    { << >>,
      << "<", "@", "1", ">" >>,
      << "<", "@", "2", ">" >>,
      << "<", "@", "&", "1", ">" >>,
      << "<", "@", "1", "2", ">" >> }
SecondTokens == { << >>, << "<", "@", "2", ">" >> }
PrefixLengths == {0} \cup ((CutLength - Window)..CutLength)
\* with a prefix of CutLength characters and no token: 2000 and 2001 characters
TailLengths == {0, MaxResponseLength - CutLength, MaxResponseLength - CutLength + 1}

ResponseTexts ==
    { Rep("a", n) \o t1 \o t2 \o Rep("a", m) :
        n \in PrefixLengths, t1 \in Tokens, t2 \in SecondTokens, m \in TailLengths }

\* the ways the callers invoke handleResponse: a mention chat (message, with or
\* without a lost thread), a context-menu command on a message, a slash command
UserMessage == [present |-> TRUE, authorId |-> << "1" >>, tag |-> << "u" >>, content |-> << "q" >>]
Invocations ==
    { [NoArgs EXCEPT !.message = UserMessage],
      [NoArgs EXCEPT !.message = UserMessage, !.messageDeleted = "threadDeleted"],
      [NoArgs EXCEPT !.message = UserMessage, !.isContextMenuCommand = TRUE],
      [NoArgs EXCEPT !.interactionUserId = << "1", "2" >>, !.messageDeleted = "slashCommand"] }

InitResponse ==
    /\ pc = "handleResponse"
    /\ \E a \in Invocations, r \in ResponseTexts : args = [a EXCEPT !.fn = "handleResponse", !.response = r]
    /\ responseText = << >>
    /\ lastIndex = 0
    /\ i = 0
    /\ embed = Embed("", "", "")
    /\ log = << >>
    /\ ret = "pending"

\* lines 92-100: the model answers with args.response
ReceiveResponse ==
    /\ pc = "handleResponse"
    /\ responseText' = Truncate(args.response)
    /\ lastIndex' = 0
    /\ pc' = "scan"
    /\ UNCHANGED << args, i, embed, log, ret >>

\* line 92: chat.sendMessage rejects; the error is the caller's
SendMessageFails ==
    /\ pc = "handleResponse"
    /\ ret' = "threw"
    /\ pc' = "done"
    /\ UNCHANGED << args, responseText, lastIndex, i, embed, log >>

\* lines 103-106: a token that is the requester's own mention; the loop goes on
ExecOwnMention ==
    /\ pc = "scan"
    /\ Exec(responseText, lastIndex) # 0
    /\ LET p == Exec(responseText, lastIndex)
       IN  /\ ~Mismatch(Matched(responseText, p), RequesterId(args))
           /\ lastIndex' = p + MentionMatch(responseText, p, TRUE) - 1
    /\ UNCHANGED << pc, args, responseText, i, embed, log, ret >>

\* lines 103-112: any other token; the notice is edited in and the function returns
ExecOtherMention ==
    /\ pc = "scan"
    /\ Exec(responseText, lastIndex) # 0
    /\ LET p == Exec(responseText, lastIndex)
       IN  /\ Mismatch(Matched(responseText, p), RequesterId(args))
           /\ lastIndex' = p + MentionMatch(responseText, p, TRUE) - 1
    /\ log' = Append(log, EditEmbeds(<< PingError >>))
    /\ ret' = "message"
    /\ pc' = "done"
    /\ UNCHANGED << args, responseText, i, embed >>

\* lines 103 and 115-116: exec returns null; the text is edited in
EditResponse ==
    /\ pc = "scan"
    /\ Exec(responseText, lastIndex) = 0
    /\ lastIndex' = 0
    /\ log' = Append(log, EditContent(responseText,
                    CreateInfoEmbed(args.isContextMenuCommand, args.message, args.messageDeleted)))
    /\ ret' = "message"
    /\ pc' = "done"
    /\ UNCHANGED << args, responseText, i, embed >>

(***************************************************************************)
(* Messages and reply chains.                                              *)
(***************************************************************************)
\* message.client.user.id, the bot's own id
ClientUserId == << "9" >>
UserId == << "1" >>

Message(authorId, content, embeds) ==
    [authorId |-> authorId, content |-> content, embeds |-> embeds]

\* the messages createInfoEmbed quotes in a context-menu response
QuotedMessages ==
    { [present |-> TRUE, authorId |-> UserId, tag |-> << "u" >>, content |-> << "q" >>],
      [present |-> TRUE, authorId |-> UserId, tag |-> << "u" >>, content |-> << "a", "\n", "b" >>],
      [present |-> TRUE, authorId |-> UserId, tag |-> << "u" >>, content |-> Rep("a", FooterLimit)] }

PlainText == << "o", "k" >>
LinkText == << "h", "t", "t", "p", ":", "/", "/", "a", ".", "b", "c" >>

\* what the bot leaves in a channel: the messages handleResponse and handleGeminiError
\* edit in (content, createInfoEmbed's embeds)
BotMessages ==
    { Message(ClientUserId, PlainText, CreateInfoEmbed(FALSE, NoMessage, "undefined")),
      Message(ClientUserId, PlainText, CreateInfoEmbed(FALSE, NoMessage, "threadDeleted")),
      Message(ClientUserId, LinkText, CreateInfoEmbed(FALSE, NoMessage, "threadDeleted")),
      Message(ClientUserId, << >>, << Embed("An Error Occurred", "unknown error", "Red") >>) }
    \cup { Message(ClientUserId, PlainText, CreateInfoEmbed(TRUE, q, "undefined")) : q \in QuotedMessages }
    \cup { Message(ClientUserId, LinkText, CreateInfoEmbed(TRUE, q, "threadDeleted")) :
             q \in {m \in QuotedMessages : Len(m.content) = 1} }

\* what users write
UserMessages ==
    { Message(UserId, << "h", "i" >>, << >>),
      Message(UserId, << "<", "@", "9", ">", " ", "h", "i" >>, << >>) }

Messages == BotMessages \cup UserMessages

\* the message being processed, a reply
Inbound == Message(UserId, << "<", "@", "9", ">", " ", "h", "e", "y" >>, << >>)

\* what a reference of the last message of the chain leads to: nothing (the last message
\* is no reply), a deleted message, a message the bot may not read, a failed request
Terminals == {"none", "deleted", "forbidden", "network"}

\* message.reference of chain[k]
HasReference(k) == k < Len(chain) \/ terminal # "none"

UnknownMessage == 10008

\* the error message.channel.messages.fetch rejects with
FetchError ==
    CASE terminal = "deleted" -> [name |-> "DiscordAPIError", code |-> UnknownMessage]
      [] terminal = "forbidden" -> [name |-> "DiscordAPIError", code |-> 50001]
      [] OTHER -> [name |-> "Error", code |-> 0]

NoError == [name |-> "", code |-> 0]

(***************************************************************************)
(* The regular expressions of fetchThreadMessages and getThreadMessages.   *)
(***************************************************************************)
HostMax == 256
TldMax == 6
\* [-a-zA-Z0-9@:%._\+~#=]
HostChar == LowerCase \cup UpperCase \cup Digit \cup {"-", "@", ":", "%", ".", "_", "+", "~", "#", "="}
\* [a-zA-Z0-9()]
TldChar == LowerCase \cup UpperCase \cup Digit \cup {"(", ")"}

\* \b between positions e and e + 1 of s
WordBoundary(s, e) == (s[e] \in WordChar) # (e + 1 <= Len(s) /\ s[e + 1] \in WordChar)

\* linkRegex matches at position p of s; the trailing group ([...]*) matches the empty
\* string and decides nothing
LinkMatchAt(s, p) ==
    \E secure \in {0, 1}, www \in {0, 4},
       n \in 1..(IF Len(s) < HostMax THEN Len(s) ELSE HostMax), t \in 1..TldMax :
        LET a == p + 4 + secure
            b == a + 3 + www
            c == b + n
            e == c + t
        IN  /\ e <= Len(s)
            /\ SubSeq(s, p, p + 3) = << "h", "t", "t", "p" >>
            /\ (secure = 1 => s[p + 4] = "s")
            /\ SubSeq(s, a, a + 2) = << ":", "/", "/" >>
            /\ (www = 4 => SubSeq(s, a + 3, a + 6) = << "w", "w", "w", "." >>)
            /\ \A k \in b..(c - 1) : s[k] \in HostChar
            /\ s[c] = "."
            /\ \A k \in (c + 1)..e : s[k] \in TldChar
            /\ WordBoundary(s, e)

\* linkRegex.test(s)
LinkTest(s) == \E p \in 1..Len(s) : s[p] = "h" /\ LinkMatchAt(s, p)

\* content.replace(/<@\d+>\s*/, ""): the leftmost match is removed
StripMention(s) ==
    LET starts == {p \in 1..Len(s) : s[p] = "<" /\ MentionMatch(s, p, FALSE) > 0}
    IN  IF starts = {} THEN s
        ELSE LET p == Min(starts)
                 e == p + MentionMatch(s, p, FALSE) - 1
                 w == Run(s, e + 1, WhiteSpace)
             IN  SubSeq(s, 1, p - 1) \o SubSeq(s, e + 1 + w, Len(s))

(***************************************************************************)
(* getThreadMessages                                                       *)
(***************************************************************************)
\* { role, parts: [{ text }] }
Turn(role, text) == [role |-> role, text |-> text]

\* threadMessages.push(turn), in place of unshift
Push(turns, turn) == Append(turns, turn)

\* threadMessages.unshift(turn)
Unshift(turns, turn) == << turn >> \o turns

\* lines 251-253
StopCondition(m) ==
    /\ m.authorId = ClientUserId
    /\ Len(m.embeds) > 0
    /\ ~LinkTest(m.content)

\* the loop condition without lines 250-254
WhileReferenceOnly(k) == HasReference(k)

\* lines 249-254
WhileCondition(k) == HasReference(k) /\ ~StopCondition(chain[k])

\* line 257
Sender(m) == IF m.authorId = ClientUserId THEN "model" ELSE "user"

\* lines 262-265: footerText?.startsWith("Response to message by")
QuotesOriginal(m) ==
    /\ Len(m.embeds) > 0
    /\ m.embeds[1].footer.present
    /\ StartsWith(m.embeds[1].footer.text, ResponseToPrefix)

\* what fetchThreadMessages returns: { userQuestion, threadMessages, messageDeleted };
\* getThreadMessages returns the variable threadMessages
Null == [null |-> TRUE, text |-> << >>, turns |-> << >>]
String(t) == [null |-> FALSE, text |-> t, turns |-> << >>]
Array(turns) == [null |-> FALSE, text |-> << >>, turns |-> turns]
NoValue == [userQuestion |-> Null, threadMessages |-> Null, messageDeleted |-> "undefined"]

Returned(value) == [kind |-> "return", error |-> NoError, value |-> value]
ReturnedUndefined == [kind |-> "return undefined", error |-> NoError, value |-> NoValue]
Threw(error) == [kind |-> "throw", error |-> error, value |-> NoValue]
Pending == [kind |-> "pending", error |-> NoError, value |-> NoValue]

IdleFormatter ==
    /\ args = NoArgs
    /\ responseText = << >>
    /\ lastIndex = 0
    /\ i = 0
    /\ embed = Embed("", "", "")
    /\ log = << >>
    /\ ret = "pending"

\* the reply chains behind the inbound message, d messages deep
Chains(d) == UNION { [1..n -> Messages] : n \in 0..d }

\* getThreadMessages is called at line 204 only, behind line 203: the message the
\* inbound message replies to was fetched and is the bot's
InitWalk ==
    /\ pc = "getThreadMessages"
    /\ \E c \in Chains(MaxDepth) :
            /\ Len(c) >= 1
            /\ c[1].authorId = ClientUserId
            /\ chain = << Inbound >> \o c
    /\ terminal \in Terminals
    /\ currentMessage = 1
    /\ threadMessages = << >>
    /\ result = Pending
    /\ apiKey = << >>
    /\ IdleFormatter

\* lines 248-261 and 273: the fetched message is a user's
WalkUser ==
    /\ pc = "getThreadMessages"
    /\ WhileCondition(currentMessage)
    /\ currentMessage < Len(chain)
    /\ LET m == chain[currentMessage + 1]
       IN  /\ Sender(m) = "user"
           /\ threadMessages' = Unshift(threadMessages, Turn("user", StripMention(m.content)))
    /\ currentMessage' = currentMessage + 1
    /\ UNCHANGED << pc, apiKey, chain, terminal, result >>

\* lines 248-259, 262-265 and 273: the fetched message is the bot's and quotes nothing
WalkModel ==
    /\ pc = "getThreadMessages"
    /\ WhileCondition(currentMessage)
    /\ currentMessage < Len(chain)
    /\ LET m == chain[currentMessage + 1]
       IN  /\ Sender(m) = "model"
           /\ ~QuotesOriginal(m)
           /\ threadMessages' = Unshift(threadMessages, Turn("model", m.content))
    /\ currentMessage' = currentMessage + 1
    /\ UNCHANGED << pc, apiKey, chain, terminal, result >>

\* lines 248-259 and 262-269: the fetched message is the bot's response to a quoted message
WalkQuoted ==
    /\ pc = "getThreadMessages"
    /\ WhileCondition(currentMessage)
    /\ currentMessage < Len(chain)
    /\ LET m == chain[currentMessage + 1]
           userMessage == SplitLine2(m.embeds[1].footer.text)
       IN  /\ Sender(m) = "model"
           /\ QuotesOriginal(m)
           /\ threadMessages' = Unshift(Unshift(threadMessages, Turn("model", m.content)),
                                        Turn("user", userMessage))
    /\ currentMessage' = currentMessage + 1
    /\ UNCHANGED << pc, apiKey, chain, terminal, result >>

\* line 256: the fetch rejects and getThreadMessages with it
WalkFetchFails ==
    /\ pc = "getThreadMessages"
    /\ WhileCondition(currentMessage)
    /\ currentMessage = Len(chain)
    /\ result' = Threw(FetchError)
    /\ pc' = "done"
    /\ UNCHANGED << apiKey, chain, terminal, currentMessage, threadMessages >>

\* lines 248-254 and 276: the loop ends
WalkReturn ==
    /\ pc = "getThreadMessages"
    /\ ~WhileCondition(currentMessage)
    /\ result' = Returned(NoValue)
    /\ pc' = "done"
    /\ UNCHANGED << apiKey, chain, terminal, currentMessage, threadMessages >>

NextWalk ==
    \/ (WalkUser /\ UNCHANGED formatterVars)
    \/ (WalkModel /\ UNCHANGED formatterVars)
    \/ (WalkQuoted /\ UNCHANGED formatterVars)
    \/ (WalkFetchFails /\ UNCHANGED formatterVars)
    \/ (WalkReturn /\ UNCHANGED formatterVars)

SpecWalk == InitWalk /\ [][NextWalk]_vars

(***************************************************************************)
(* fetchThreadMessages, checkGeminiApiKey, isInvalidOriginalMessage        *)
(***************************************************************************)
MinKeyLength == 4

\* !Gemini_API_KEY || Gemini_API_KEY.length < 4
KeyInvalid(key) == Len(key) = 0 \/ Len(key) < MinKeyLength

ApiKeys == { << >>, << "k", "e", "y" >>, << "k", "e", "y", "s" >> }

\* message.reply({ embeds })
Reply(embeds) ==
    [op |-> "reply", hasContent |-> FALSE, content |-> << >>, embeds |-> embeds, ms |-> 0]

StartStrings == { ResponseToPrefix, DeletedPrefix, HistoryPrefix }

\* lines 229-233: no footer, no footer text, or a footer text that starts with none of
\* the start strings
FooterUnknown(m) ==
    \/ ~m.embeds[1].footer.present
    \/ Len(m.embeds[1].footer.text) = 0
    \/ ~\E str \in StartStrings : StartsWith(m.embeds[1].footer.text, str)

\* Line 227 reads `message`. isInvalidOriginalMessage has the parameters
\* originalMessage, linkRegex and startStrings (line 225), the module declares no
\* `message` (lines 1-2 and the functions), and Node has no such global: the name is
\* bound nowhere.
MessageInScope == FALSE

\* lines 226-235: "ReferenceError" when evaluating the expression throws it
IsInvalidOriginalMessage(originalMessage) ==
    IF ~MessageInScope THEN "ReferenceError"
    ELSE IF \/ originalMessage.authorId # ClientUserId
            \/ /\ Len(originalMessage.embeds) > 0
               /\ FooterUnknown(originalMessage)
               /\ ~LinkTest(originalMessage.content)
         THEN "invalid"
         ELSE "valid"

\* error instanceof DiscordAPIError && error.code === 10008
IsUnknownMessage(error) == error.name = "DiscordAPIError" /\ error.code = UnknownMessage

InitFetch ==
    /\ pc = "fetchThreadMessages"
    /\ apiKey \in ApiKeys
    /\ \E c \in Chains(MaxDepth) : chain = << Inbound >> \o c
    /\ terminal \in Terminals
    /\ (Len(chain) = 1 => terminal # "none")
    /\ currentMessage = 0
    /\ threadMessages = << >>
    /\ result = Pending
    /\ IdleFormatter

\* lines 188 and 169-178: the key is refused, the refusal is sent as a reply, and
\* fetchThreadMessages returns undefined
InvalidApiKey ==
    /\ pc = "fetchThreadMessages"
    /\ KeyInvalid(apiKey)
    /\ log' = Append(log, Reply(<< Embed("Invalid API Key",
                                         "The API Key for Gemini is invalid or not provided.",
                                         "Red") >>))
    /\ result' = ReturnedUndefined
    /\ pc' = "done"
    /\ UNCHANGED << args, responseText, lastIndex, i, embed, ret,
                    apiKey, chain, terminal, currentMessage, threadMessages >>

\* lines 188-197: the message replied to is fetched
FetchOriginal ==
    /\ pc = "fetchThreadMessages"
    /\ ~KeyInvalid(apiKey)
    /\ Len(chain) >= 2
    /\ pc' = "gate"
    /\ UNCHANGED << formatterVars, apiKey, chain, terminal, currentMessage, threadMessages, result >>

\* lines 195 and 206-209, 215: the fetch rejects with Unknown Message
OriginalNotFound ==
    /\ pc = "fetchThreadMessages"
    /\ ~KeyInvalid(apiKey)
    /\ Len(chain) = 1
    /\ IsUnknownMessage(FetchError)
    /\ threadMessages' = << >>
    /\ result' = Returned([userQuestion |-> String(chain[1].content),
                           threadMessages |-> Array(threadMessages'),
                           messageDeleted |-> "threadDeleted"])
    /\ pc' = "done"
    /\ UNCHANGED << formatterVars, apiKey, chain, terminal, currentMessage >>

\* lines 195 and 206-212: the fetch rejects with anything else, which is thrown on
OriginalFetchThrows ==
    /\ pc = "fetchThreadMessages"
    /\ ~KeyInvalid(apiKey)
    /\ Len(chain) = 1
    /\ ~IsUnknownMessage(FetchError)
    /\ result' = Threw(FetchError)
    /\ pc' = "done"
    /\ UNCHANGED << formatterVars, apiKey, chain, terminal, currentMessage, threadMessages >>

\* lines 199-212: the gate. What it throws is caught at line 206 and, being no
\* DiscordAPIError, thrown on at line 211; were it to answer, line 200 returns on
\* "invalid" and lines 203-204 call getThreadMessages on "valid"
Gate ==
    /\ pc = "gate"
    /\ LET verdict == IsInvalidOriginalMessage(chain[2])
       IN  CASE verdict = "ReferenceError" ->
                    /\ result' = Threw([name |-> "ReferenceError", code |-> 0])
                    /\ pc' = "done"
                    /\ UNCHANGED currentMessage
             [] verdict = "invalid" ->
                    /\ result' = Returned([userQuestion |-> Null, threadMessages |-> Null,
                                           messageDeleted |-> "threadDeleted"])
                    /\ pc' = "done"
                    /\ UNCHANGED currentMessage
             [] verdict = "valid" /\ chain[2].authorId = ClientUserId ->
                    /\ currentMessage' = 1
                    /\ pc' = "getThreadMessages"
                    /\ UNCHANGED result
             [] OTHER ->
                    /\ result' = Returned([userQuestion |-> String(chain[1].content),
                                           threadMessages |-> Array(<< >>),
                                           messageDeleted |-> "undefined"])
                    /\ pc' = "done"
                    /\ UNCHANGED currentMessage
    /\ UNCHANGED << formatterVars, apiKey, chain, terminal, threadMessages >>

NextFetch ==
    \/ InvalidApiKey
    \/ FetchOriginal
    \/ OriginalNotFound
    \/ OriginalFetchThrows
    \/ Gate

SpecFetch == InitFetch /\ [][NextFetch]_vars

IdleThread ==
    /\ apiKey = << >>
    /\ chain = << >>
    /\ terminal = "none"
    /\ currentMessage = 0
    /\ threadMessages = << >>
    /\ result = Pending

InitFormatter == (InitResponse \/ InitError) /\ IdleThread

NextFormatter ==
    \/ (ReceiveResponse /\ UNCHANGED threadVars)
    \/ (SendMessageFails /\ UNCHANGED threadVars)
    \/ (ExecOwnMention /\ UNCHANGED threadVars)
    \/ (ExecOtherMention /\ UNCHANGED threadVars)
    \/ (EditResponse /\ UNCHANGED threadVars)
    \/ (QuotaNotice /\ UNCHANGED threadVars)
    \/ (CountdownEdit /\ UNCHANGED threadVars)
    \/ (CountdownWait /\ UNCHANGED threadVars)
    \/ (CountdownReturn /\ UNCHANGED threadVars)
    \/ (ErrorNotice /\ UNCHANGED threadVars)

SpecFormatter == InitFormatter /\ [][NextFormatter]_vars

(***************************************************************************)
(* Claims about the formatter (SpecFormatter).                             *)
(***************************************************************************)
\* text holds a token <@digits> or <@&digits> that is not the mention of id
HasOtherMention(text, id) ==
    \E p \in 1..Len(text) :
        /\ text[p] = "<"
        /\ MentionMatch(text, p, TRUE) > 0
        /\ SubSeq(text, p, p + MentionMatch(text, p, TRUE) - 1) # Mention(id)

OnlyPingError == log = << EditEmbeds(<< PingError >>) >>

ResponseHandled == args.fn = "handleResponse" /\ pc = "done" /\ ret = "message"

\* C4 as stated: when the model's response text holds a token that is not the
\* requester's mention, the only edit of the loading message is the mention-mismatch
\* notice, and no content written holds such a token.
C4_AnyOtherMentionRejected ==
    /\ (ResponseHandled /\ HasOtherMention(args.response, RequesterId(args))) => OnlyPingError
    /\ \A k \in 1..Len(log) :
            log[k].hasContent => ~HasOtherMention(log[k].content, RequesterId(args))

\* C4 amended: when the response text as it is after the truncation of lines 96-98
\* holds a token <@digits> or <@&digits> that is not the requester's mention, the only
\* edit of the loading message is the mention-mismatch notice; and in every run, no
\* content written to the loading message holds such a token.
C4_OtherMentionAfterTruncationRejected ==
    /\ (ResponseHandled /\ HasOtherMention(responseText, RequesterId(args))) => OnlyPingError
    /\ \A k \in 1..Len(log) :
            log[k].hasContent => ~HasOtherMention(log[k].content, RequesterId(args))

\* C4's case: a response whose first token is the requester's own mention and whose
\* second is somebody else's was rejected with the notice
C4_Witness ==
    /\ ResponseHandled
    /\ OnlyPingError
    /\ HasOtherMention(responseText, RequesterId(args))
    /\ \E p \in 1..Len(responseText) :
            /\ MentionMatch(responseText, p, TRUE) > 0
            /\ SubSeq(responseText, p, p + MentionMatch(responseText, p, TRUE) - 1)
                 = Mention(RequesterId(args))

CountdownNumerals ==
    << << "1", "0" >>, << "9" >>, << "8" >>, << "7" >>, << "6" >>,
       << "5" >>, << "4" >>, << "3" >>, << "2" >>, << "1" >> >>

\* the k-th event of a quota countdown: edits at odd k, with the footers (10) .. (1),
\* each followed by a wait of one second
CountdownEvent(k) ==
    IF k % 2 = 1
    THEN EditEmbeds(<< [title |-> "An Error Occurred",
                        description |-> "a lot of requests at the moment",
                        color |-> "Red",
                        footer |-> Footer(SubSeq(RetryFooter(0), 1, 23)
                                          \o CountdownNumerals[(k + 1) \div 2] \o << ")" >>)] >>)
    ELSE Wait(1000)

\* C5: on an error whose message is the quota signature, handleGeminiError edits the
\* loading message exactly 10 times, with the footers (10), (9), ..., (1) in that order,
\* waits one second after each edit, returns "quota_error" only after the tenth wait,
\* and edits nothing else.
C5_QuotaCountdown ==
    (args.fn = "handleGeminiError" /\ args.errMessage = QuotaSignature) =>
        /\ Len(log) <= 20
        /\ \A k \in 1..Len(log) : log[k] = CountdownEvent(k)
        /\ (ret = "quota_error" => Len(log) = 20)
        /\ (pc = "done" => ret = "quota_error")

C5_Witness ==
    /\ args.fn = "handleGeminiError"
    /\ args.errMessage = QuotaSignature
    /\ pc = "done"
    /\ ret = "quota_error"
    /\ Len(log) = 20
    /\ log[19].embeds[1].footer.text = RetryFooter(1)

\* C6: a response text longer than 2000 characters becomes its first 1936 characters
\* followed by the truncation suffix; a text of 2000 characters or fewer is passed on
\* unchanged; what is edited in as content is that text.
C6_Truncation ==
    (args.fn = "handleResponse" /\ pc \in {"scan", "done"} /\ ret # "threw") =>
        /\ IF Len(args.response) > 2000
           THEN /\ Len(responseText) = 1936 + Len(TruncationSuffix)
                /\ \A k \in 1..1936 : responseText[k] = args.response[k]
                /\ \A k \in 1..Len(TruncationSuffix) : responseText[1936 + k] = TruncationSuffix[k]
           ELSE responseText = args.response
        /\ \A k \in 1..Len(log) : log[k].hasContent => log[k].content = responseText

\* C6's case: a text of more than 2000 characters was cut and edited in
C6_Witness ==
    /\ ResponseHandled
    /\ Len(args.response) > 2000
    /\ Len(log) = 1
    /\ log[1].hasContent
    /\ log[1].content # args.response

\* C9: the content edited into the loading message never exceeds Discord's limit of
\* 2000 characters.
C9_ContentWithinDiscordLimit ==
    \A k \in 1..Len(log) : log[k].hasContent => Len(log[k].content) <= DiscordCharLimit

(***************************************************************************)
(* Claims about getThreadMessages (SpecWalk).                              *)
(***************************************************************************)
\* a rendered answer: the bot's, with at least one embed, content without a link
RenderedAnswer(m) ==
    m.authorId = ClientUserId /\ Len(m.embeds) >= 1 /\ ~LinkTest(m.content)

\* the decision rule of lines 226-235 for a gate that knows the bot's id
GateAccepts(m) ==
    /\ m.authorId = ClientUserId
    /\ ~(Len(m.embeds) > 0 /\ FooterUnknown(m) /\ ~LinkTest(m.content))

\* N: the number of messages behind the inbound message
Depth == Len(chain) - 1
AllFetchable == terminal = "none"
WalkReturned == pc = "done" /\ result.kind = "return"

\* the turns one message of the chain stands for
TurnsOf(m) ==
    IF m.authorId # ClientUserId THEN << Turn("user", StripMention(m.content)) >>
    ELSE IF QuotesOriginal(m)
         THEN << Turn("user", SplitLine2(m.embeds[1].footer.text)), Turn("model", m.content) >>
         ELSE << Turn("model", m.content) >>

\* the turns of chain[k], chain[k - 1], ..., chain[2]: oldest message first
RECURSIVE Transcript(_)
Transcript(k) == IF k < 2 THEN << >> ELSE TurnsOf(chain[k]) \o Transcript(k - 1)

\* the first rendered answer on the chain, or the chain's last message
LastFetched == Min({k \in 1..Len(chain) : RenderedAnswer(chain[k])} \cup {Len(chain)})

QuotingAmong(k) == {j \in 2..k : chain[j].authorId = ClientUserId /\ QuotesOriginal(chain[j])}

\* C1 as stated: for a valid reply chain of depth N whose messages can all be fetched,
\* the returned sequence has N turns, or N + 1 with a synthesized user turn, oldest first.
C1_LengthIsDepth ==
    (WalkReturned /\ AllFetchable /\ GateAccepts(chain[2])) =>
        /\ Len(threadMessages) \in {Depth, Depth + 1}
        /\ threadMessages = Transcript(Len(chain))

\* C1 amended: for a reply chain of depth N whose messages can all be fetched, the
\* returned sequence holds, oldest first, the turns of the first F messages behind the
\* inbound message, where the F-th is the first rendered answer on the chain (F = N when
\* there is none); its length is F plus the number of those messages that are the bot's
\* with a footer starting "Response to message by".
C1_LengthIsFetchedPlusQuoted ==
    (WalkReturned /\ AllFetchable) =>
        /\ LastFetched - 1 <= Depth
        /\ threadMessages = Transcript(LastFetched)
        /\ Len(threadMessages) = (LastFetched - 1) + Cardinality(QuotingAmong(LastFetched))

\* C1's case: a chain whose walk ends at a rendered answer before the chain does,
\* behind a quoting message and one more
C1_Witness ==
    /\ WalkReturned
    /\ AllFetchable
    /\ LastFetched < Len(chain)
    /\ LastFetched >= 3
    /\ QuotingAmong(LastFetched) # {}
    /\ Len(threadMessages) = LastFetched
    /\ threadMessages[1] # threadMessages[Len(threadMessages)]

\* bot messages answer user messages; a context-menu response is no reply, so a quoting
\* message ends its chain; and the answer to a reply whose own parent the gate refuses
\* carries the thread-deleted notice (lines 199-200, 137-145)
PlausibleHistory ==
    /\ GateAccepts(chain[2])
    /\ \A k \in 2..Len(chain) :
            QuotesOriginal(chain[k]) => (k = Len(chain) /\ terminal = "none")
    /\ \A k \in 2..(Len(chain) - 1) :
            chain[k].authorId = ClientUserId => chain[k + 1].authorId # ClientUserId
    /\ \A k \in 2..(Len(chain) - 2) :
            (chain[k].authorId = ClientUserId /\ ~GateAccepts(chain[k + 2])) =>
                /\ Len(chain[k].embeds) > 0
                /\ chain[k].embeds[Len(chain[k].embeds)].footer = Footer(ThreadDeletedFooter)

\* C7: no two consecutive turns of the returned sequence have the same role.
C7_TurnsAlternate ==
    (WalkReturned /\ PlausibleHistory) =>
        \A j \in 1..(Len(threadMessages) - 1) :
            threadMessages[j].role # threadMessages[j + 1].role

\* C8: the cursor starts at the inbound message; a message is fetched, and a turn added,
\* only from a cursor that has a reply-reference and is no rendered answer, and the
\* cursor then moves to the fetched message; the walk returns only at a cursor without
\* reference or at a rendered answer.
C8_WalkStopsAtRenderedAnswer ==
    /\ (currentMessage = 1 /\ threadMessages = << >>)
    /\ [][ (currentMessage' # currentMessage \/ threadMessages' # threadMessages) =>
                /\ HasReference(currentMessage)
                /\ ~RenderedAnswer(chain[currentMessage])
                /\ currentMessage' = currentMessage + 1 ]_vars
    /\ [](WalkReturned =>
                (~HasReference(currentMessage) \/ RenderedAnswer(chain[currentMessage])))

\* C8's case: the walk returned at a rendered answer that quotes an original message
\* (two turns were recorded for it) and has itself a reply-reference to a further message
C8_Witness ==
    /\ WalkReturned
    /\ currentMessage > 1
    /\ currentMessage < Len(chain)
    /\ RenderedAnswer(chain[currentMessage])
    /\ QuotesOriginal(chain[currentMessage])
    /\ Len(threadMessages) = currentMessage

\* C10: for every bot message on the walk whose embeds createInfoEmbed rendered for a
\* context-menu response to a message with content c, the returned sequence holds a user
\* turn with text c immediately before the model turn with the bot message's content.
C10_FooterRoundTrip ==
    WalkReturned =>
        \A k \in 2..currentMessage, q \in QuotedMessages, d \in {"undefined", "threadDeleted"} :
            (chain[k].authorId = ClientUserId /\ chain[k].embeds = CreateInfoEmbed(TRUE, q, d)) =>
                \E j \in 1..(Len(threadMessages) - 1) :
                    /\ threadMessages[j] = Turn("user", q.content)
                    /\ threadMessages[j + 1] = Turn("model", chain[k].content)

(***************************************************************************)
(* Claims about fetchThreadMessages (SpecFetch).                           *)
(***************************************************************************)
FetchDone == pc = "done" /\ ~KeyInvalid(apiKey)

\* the walk of the chain meets no rendered answer, and so reaches the chain's end
WalkReachesEnd ==
    /\ (Len(chain) >= 2 => GateAccepts(chain[2]))
    /\ \A k \in 2..Len(chain) : ~RenderedAnswer(chain[k])

\* C2: when the fetch of a referenced message of the chain fails with Unknown Message
\* (10008), fetchThreadMessages returns no turns, messageDeleted = "threadDeleted" and
\* the inbound message's content as userQuestion, however many turns were accumulated.
C2_NotFoundDiscardsHistory ==
    (FetchDone /\ terminal = "deleted" /\ WalkReachesEnd) =>
        result = Returned([userQuestion |-> String(chain[1].content),
                           threadMessages |-> Array(<< >>),
                           messageDeleted |-> "threadDeleted"])

\* C3: when the message the inbound message replies to is not the bot's and has neither
\* a recognized footer nor a link, the gate answers invalid, no walk is made, and
\* fetchThreadMessages returns an empty history with messageDeleted = "threadDeleted".
C3_ForeignOriginalRefused ==
    (/\ FetchDone
     /\ Len(chain) >= 2
     /\ chain[2].authorId # ClientUserId
     /\ (Len(chain[2].embeds) = 0 \/ FooterUnknown(chain[2]))
     /\ ~LinkTest(chain[2].content)) =>
        /\ result.kind = "return"
        /\ result.value.messageDeleted = "threadDeleted"
        /\ (result.value.threadMessages.null \/ result.value.threadMessages.turns = << >>)
        /\ currentMessage = 0
        /\ threadMessages = << >>
====
